---- MODULE Spec2Model ----
(***************************************************************************)
(* A model of the crawl engine of spacetime-crawler4py: the worker loop    *)
(* (crawler/worker.py), the Robots authority (crawler/robots.py), the Skip *)
(* set (crawler/skip.py) and the SimHash near-duplicate detector           *)
(* (crawler/simhash.py), with the Frontier, the Politeness gate and the    *)
(* download helpers, whose code is not in the tree, modelled from their    *)
(* documented contracts.                                                   *)
(*                                                                         *)
(* Every worker thread is a process with a program counter pc[w].  A call  *)
(* into a component that takes the component's RLock is a sequence of      *)
(* steps: the acquisition, the body, the release.                          *)
(***************************************************************************)
EXTENDS Integers, Sequences, FiniteSets, TLC

\* ------------------------------------------------------------------ bounds
\* config.threads_count: the number of worker threads of the pool.
NumWorkers == 2
\* The fingerprint width of the model (the source uses 256 bits).
BitLength == 4
\* The history counter of requests per host saturates here.
MaxUnwaited == 2

Workers == 1..NumWorkers
NoOwner == 0

\* ------------------------------------------------------------- dictionaries
\* A Python dict (or shelve) is a function on the set of its keys.
EmptyDict == [k \in {} |-> TRUE]
Put(d, k, v) == [x \in (DOMAIN d) \cup {k} |-> IF x = k THEN v ELSE d[x]]
Values(d) == {d[k] : k \in DOMAIN d}

\* A shelve: an assignment to a key leaves the file unsynced, sync() flushes.
shelve_write(files, f) == files \cup {f}
shelve_sync_skipped(files, f) == files
shelve_sync(files, f) == files \ {f}

\* threading.RLock: re-entrant, owned by one thread, counted.
FreeLock == [owner |-> NoOwner, count |-> 0]
RLockAvailable(l, w) == l.owner = NoOwner \/ l.owner = w
RLockAcquire(l, w) == [owner |-> w, count |-> l.count + 1]
RLockRelease_kept(l) == l
RLockRelease(l) ==
    IF l.count <= 1 THEN FreeLock ELSE [l EXCEPT !.count = @ - 1]

\* --------------------------------------------------------------------- URLs
\* A URL is scheme://host/path#frag; the scheme is the same for all.
Url(h, p, f) == [host |-> h, path |-> p, frag |-> f]
Hosts == {"a", "b"}
Fragments == {"", "top"}
XmlPaths == {"/s.xml"}
SeedUrls ==
    {Url("a", "/p", ""), Url("a", "/q", ""), Url("b", "/s.xml", "")}
Urls == {Url(u.host, u.path, f) : u \in SeedUrls, f \in Fragments}
NoUrl == Url("", "", "")

\* utils.normalize: the normalized form of a URL has no fragment.
normalize(url) == [url EXCEPT !.frag = ""]
\* utils.get_urlhash: a stable, collision-free hash of a URL string.
get_urlhash(url) == <<"urlhash", url.host, url.path, url.frag>>

\* The texts a fetch of a URL can return, as the words of the text.
PageTokens(url) ==
    CASE url.path = "/p" -> {<<"x", "y">>, <<>>}
      [] url.path = "/q" -> {<<"x", "y">>, <<"z">>}
      [] OTHER -> {<<>>, <<"z">>}

\* config.low_information_value: the word-count floor.
LowInformationValue == 2

\* utils.tokenizer.get_word_count_from_response
get_word_count_from_response(resp) == Len(resp.tokens)

\* A response as the components read it: resp.url and the words of its text.
Resp(url, tokens) == [url |-> url, tokens |-> tokens]
NoResp == Resp(NoUrl, <<>>)

\* What download(url) can return: no usable response, or a response whose
\* content-length header is absent, small, over the ceiling, or not a number.
Responses(url) ==
    {[raw_response |-> FALSE, content_length |-> "absent", tokens |-> <<>>]} \cup
    {[raw_response |-> TRUE, content_length |-> c, tokens |-> t] :
        c \in {"absent", "small", "big", "malformed"}, t \in PageTokens(url)}

\* ------------------------------------------------------------------- robots
\* Python's None in the robots dictionary: the 'no policy' sentinel.
None == [parsed |-> FALSE]
\* A parsed RobotFileParser: the paths it disallows for the user agent, the
\* declared crawl delay (<<>> when none is declared) and the sitemaps
\* (<<>> stands for site_maps() returning None).
Policy(dis, delay, maps) ==
    [parsed |-> TRUE, disallow |-> dis, delay |-> delay, site_maps |-> maps]
\* The outcomes of downloading and parsing a host's robots.txt.
RobotsTxt(h) ==
    IF h = "a"
    THEN {None, Policy({"/p"}, <<1>>, <<Url("a", "/s.xml", "")>>)}
    ELSE {None, Policy({}, <<>>, <<>>), Policy({}, <<0>>, <<>>)}

\* Robots._getBaseUrl
_getBaseUrl(url) == Url(url.host, "", "")
\* Robots._getHashUrl
Robots_getHashUrl(url) == get_urlhash(normalize(_getBaseUrl(url)))
\* Robots.url_ends_with_xml: the URL string ends with ".xml".
url_never_ends_with_xml(url) == FALSE
url_ends_with_xml(url) == url.frag = "" /\ url.path \in XmlPaths

\* ----------------------------------------------------------------- SimHash
\* config.similarity_threshold, a fraction: ThresholdNum / ThresholdDen.
ThresholdNum == 3
ThresholdDen == 4

\* The vocabulary of the pages, and hashlib.sha256 of each token read as an
\* integer (cut to the fingerprint width).
Tokens == {"x", "y", "z"}
sha256(token) ==
    (CASE token = "x" -> 11 [] token = "y" -> 13 [] OTHER -> 6) % (2 ^ BitLength)

\* (n >> i) & 1
Bit(n, i) == (n \div (2 ^ i)) % 2

\* utils.tokenizer.computeWordFrequencies: token -> number of occurrences.
computeWordFrequencies(tokens) ==
    [t \in {tokens[i] : i \in DOMAIN tokens} |->
        Cardinality({i \in DOMAIN tokens : tokens[i] = t})]

\* SimHash._tokenize
_tokenize(resp) == computeWordFrequencies(resp.tokens)

RECURSIVE SumOver(_, _)
SumOver(S, f) ==
    IF S = {} THEN 0
    ELSE LET x == CHOOSE y \in S : TRUE IN f[x] + SumOver(S \ {x}, f)

\* f"{simhash:064x}": the digits of the hexadecimal string, most significant
\* first, zero-padded to the width of the fingerprint.
HexDigits == (BitLength + 3) \div 4
format_x(n) == [i \in 1..HexDigits |-> (n \div (16 ^ (HexDigits - i))) % 16]
\* int(s, 16)
int16(s) == SumOver(DOMAIN s, [i \in DOMAIN s |-> s[i] * (16 ^ (Len(s) - i))])

\* _hashify, "if count > 0".
count_not_negative(count) == count >= 0
count_positive(count) == count > 0

\* SimHash._hashify: the per-position signed sum of the token frequencies,
\* a 1 bit where the sum is positive, formatted as a hexadecimal string.
_hashify(token_freq_dict) ==
    LET vector == [i \in 0..(BitLength - 1) |->
            SumOver(DOMAIN token_freq_dict,
                    [t \in DOMAIN token_freq_dict |->
                        IF Bit(sha256(t), i) = 1 THEN token_freq_dict[t]
                                                 ELSE 0 - token_freq_dict[t]])]
        simhash == SumOver({pos \in 0..(BitLength - 1) : count_positive(vector[pos])},
                           [pos \in 0..(BitLength - 1) |-> 2 ^ pos])
    IN  format_x(simhash)

\* hash1 ^ hash2 on non-negative integers.
RECURSIVE Xor(_, _)
Xor(a, b) ==
    IF a = 0 /\ b = 0 THEN 0
    ELSE ((a + b) % 2) + 2 * Xor(a \div 2, b \div 2)

\* bin(n).count("1") of a non-negative integer.
RECURSIVE CountOnes(_)
CountOnes(n) == IF n = 0 THEN 0 ELSE (n % 2) + CountOnes(n \div 2)

\* _compare_hashes without "same_bits = mask & same_bits": bin() of the
\* negative ~diff writes a sign and the digits of diff + 1.
_compare_hashes_unmasked(hash1, hash2) ==
    <<CountOnes(Xor(int16(hash1), int16(hash2)) + 1), BitLength>>

\* SimHash._compare_hashes: xor, invert (~d is -d - 1), mask to the width
\* (Python's & of a negative integer with the mask is the residue modulo
\* 2^width), count the ones; the quotient is returned as <<ones, width>>.
_compare_hashes(hash1, hash2) ==
    LET diff == Xor(int16(hash1), int16(hash2))
        same_bits == 0 - diff - 1
        bit_length == BitLength
        mask == (2 ^ bit_length) - 1
        masked == same_bits % (mask + 1)
    IN  <<CountOnes(masked), bit_length>>

\* ">= self.config.similarity_threshold" on the returned quotient.
MeetsThresholdStrict(ratio) == ratio[1] * ThresholdDen > ThresholdNum * ratio[2]
MeetsThreshold(ratio) == ratio[1] * ThresholdDen >= ThresholdNum * ratio[2]

\* The loop of check_page_is_similar over self.hashes.items(): some saved
\* hash is similar to the page's one (an empty dictionary has none).
FirstOnlySimilar(page_hash, hashes) ==
    /\ DOMAIN hashes # {}
    /\ LET url == CHOOSE u \in DOMAIN hashes : TRUE
       IN  MeetsThreshold(_compare_hashes(page_hash, hashes[url]))
similar_saved_hash(page_hash, hashes) ==
    \E url \in DOMAIN hashes :
        MeetsThreshold(_compare_hashes(page_hash, hashes[url]))

VARIABLES
    restart,            \* Crawler(config, restart)
    frontier_save,      \* Frontier: normalized URL -> completed
    to_be_downloaded,   \* Frontier: the pending URLs not yet handed out
    pc,                 \* where each worker thread is
    retpc,              \* where a worker continues after a component call
    tbd_url,            \* Worker.run: tbd_url
    exc,                \* the exception that ended a worker thread
    resp,               \* the response a worker holds
    robots_dict,        \* Robots._robots as created in __init__
    robots_save,        \* Robots.save
    robots_lock,        \* Robots.lock
    rb_url,             \* the url argument of the Robots call in progress
    rb_op,              \* which of can_fetch, crawl_delay, sitemaps it is
    rb_ret,             \* what the last Robots call returned
    skip_dict,          \* Skip.skip_set as created in __init__
    skip_save,          \* Skip.save
    skip_lock,          \* Skip.lock
    hashes_dict,        \* SimHash.hashes as created in __init__
    hashes_save,        \* SimHash.save
    simhash_lock,       \* SimHash.lock
    page_hash,          \* check_page_is_similar: page_hash
    sim_ret,            \* what the last check_page_is_similar returned
    max_save,           \* FindMax.save, which is FindMax.curr_max
    max_lock,           \* FindMax.lock
    token_dict,         \* Token.counter as created in __init__
    token_save,         \* Token.save
    token_lock,         \* Token.lock
    unwaited,           \* history: requests started per host since its last wait
    robots_fetches,     \* history: robots.txt downloads per host
    robots_failed,      \* history: the hosts whose robots.txt download failed
    sim_seen,           \* history: SimHash.hashes when the call took the lock
    sim_peers,          \* history: the workers whose call overlapped this one
    sim_mixed,          \* history: an overlapping call had another fingerprint
    pure,               \* the function applied on its own, its arguments and result
    max_log,            \* history: the initial record, then the calls of
                        \* found_new_max in the order they took the lock
    token_seen,         \* history: the occurrences of each token analysed
    unsynced,           \* the save files written to and not synced since
    robots_loaded,      \* history: the robots records found in the save file
    iter_wrote,         \* history: the thread has changed the SimHash store,
                        \* the max record, the token counts or the Frontier's
                        \* URLs since it last popped a URL
    token_caught,       \* history: the thread's last analyze_response caught
                        \* a failure of the tokenizing
    max_ret,            \* what each thread's last found_new_max returned
    skip_reason,        \* history: the check that made the worker skip the
                        \* URL it holds
    frontier_last,      \* history: the last add_url or mark_url_complete
                        \* to act, and the entry it found
    scraper_unique_urls, \* scraper.unique_urls
    word_counts,        \* scraper.word_counts
    subdomain_counts,   \* scraper.subdomain_counts
    longest_page,       \* scraper.longest_page
    analytics_frame,    \* each thread's call of scraper.update_analytics: its
                        \* position, its arguments and its local wc
    analytics_log       \* history: the calls started, the times each page
                        \* was counted, the word counts analysed and the
                        \* greatest word count ever stored in longest_page

frontierVars == <<frontier_save, to_be_downloaded>>
workerVars == <<pc, retpc, tbd_url, exc, resp>>
robotsVars == <<robots_dict, robots_save, robots_lock, rb_url, rb_op, rb_ret>>
skipVars == <<skip_dict, skip_save, skip_lock>>
simhashVars == <<hashes_dict, hashes_save, simhash_lock, page_hash, sim_ret>>
maxVars == <<max_save, max_lock>>
tokenVars == <<token_dict, token_save, token_lock, token_seen>>
analyticsVars ==
    <<scraper_unique_urls, word_counts, subdomain_counts, longest_page, analytics_frame,
      analytics_log>>
historyVars == <<unwaited, robots_fetches, robots_failed, sim_seen, sim_peers, sim_mixed>>

vars ==
    <<restart, analyticsVars, token_caught, max_ret, skip_reason, frontier_last, iter_wrote, pure, max_log, unsynced, robots_loaded, frontierVars, workerVars, robotsVars, skipVars, simhashVars,
      maxVars, tokenVars, historyVars>>

\* The pages given to scraper.update_analytics: their normalized URLs and
\* their token lists. Host "a" stands for a host under .ics.uci.edu.
AnalyticsUrls == {Url("a", "/p", ""), Url("b", "/q", "")}
AnalyticsWords == {<<"z">>, <<"x", "y">>}
NoFrame == [pc |-> "idle", page_url |-> NoUrl, words |-> <<>>, wc |-> 0]

\* Robots._parse_save_file: without restart, _robots IS the shelve.
_robots_not_loaded == robots_dict
_robots == IF restart THEN robots_dict ELSE robots_save
\* Skip._parse_save_file: without restart, skip_set IS the shelve.
skip_set == IF restart THEN skip_dict ELSE skip_save
\* SimHash.__init__: without restart, hashes IS the shelve.
hashes == IF restart THEN hashes_dict ELSE hashes_save
\* Token.__init__: without restart, counter IS the shelve.
counter == IF restart THEN token_dict ELSE token_save

\* ------------------------------------------------------------ construction
\* The strings FindMax.__init__ and _parse_save_file store as the url.
NoneString == Url("None", "", "")
EmptyString == NoUrl

\* What an earlier run can have left in the save files: nothing, or the
\* state after it skipped a:/q and resolved both hosts' robots.txt.
PriorRuns ==
    {[completed |-> {}, skipped |-> EmptyDict, robots |-> EmptyDict,
      max |-> [url |-> EmptyString, max_words |-> 0], hashes |-> EmptyDict],
     [completed |-> {Url("a", "/q", "")},
      skipped |-> Put(EmptyDict, get_urlhash(Url("a", "/q", "")), Url("a", "/q", "")),
      robots |-> Put(Put(EmptyDict, Robots_getHashUrl(Url("a", "", "")), None),
                     Robots_getHashUrl(Url("b", "", "")), Policy({}, <<>>, <<>>)),
      max |-> [url |-> NoneString, max_words |-> 0], hashes |-> EmptyDict]}

\* Frontier construction: the entries with completed=false of the save
\* file are the ones to hand out.
Pending(save) == {u \in DOMAIN save : ~save[u]}

\* Crawler.__init__: with restart the save files are deleted; without it
\* each component takes its save file as its in-memory dictionary.
ConstructFrom(pc0, priors) ==
    /\ restart \in BOOLEAN
    /\ \E prior \in priors :
        /\ restart => prior.completed = {}
        /\ frontier_save = [u \in SeedUrls |-> u \in prior.completed]
        /\ to_be_downloaded = Pending([u \in SeedUrls |-> u \in prior.completed])
        /\ robots_save = prior.robots
        /\ robots_loaded = IF restart THEN EmptyDict ELSE prior.robots
        /\ skip_save = prior.skipped
        /\ hashes_save = IF restart THEN EmptyDict ELSE prior.hashes
        /\ max_save = IF restart THEN [url |-> NoneString, max_words |-> 0]
                                 ELSE prior.max
        /\ unsynced = IF restart \/ prior.max.url = EmptyString THEN {"max"} ELSE {}
    /\ robots_dict = EmptyDict
    /\ skip_dict = EmptyDict
    /\ hashes_dict = EmptyDict
    /\ token_dict = EmptyDict
    /\ token_save = EmptyDict
    /\ pc = [w \in Workers |-> pc0]
    /\ retpc = [w \in Workers |-> pc0]
    /\ tbd_url = [w \in Workers |-> NoUrl]
    /\ exc = [w \in Workers |-> "none"]
    /\ resp = [w \in Workers |-> NoResp]
    /\ robots_lock = FreeLock
    /\ rb_url = [w \in Workers |-> NoUrl]
    /\ rb_op = [w \in Workers |-> "none"]
    /\ rb_ret = [w \in Workers |-> [op |-> "none", val |-> 0]]
    /\ skip_lock = FreeLock
    /\ simhash_lock = FreeLock
    /\ page_hash = [w \in Workers |-> format_x(0)]
    /\ sim_ret = [w \in Workers |-> "none"]
    /\ max_lock = FreeLock
    /\ token_lock = FreeLock
    /\ unwaited = [h \in Hosts |-> 0]
    /\ robots_fetches = [h \in Hosts |-> 0]
    /\ robots_failed = {}
    /\ sim_seen = [w \in Workers |-> EmptyDict]
    /\ sim_peers = [w \in Workers |-> {}]
    /\ sim_mixed = [w \in Workers |-> FALSE]
    /\ pure = [fn |-> "none"]
    /\ frontier_last = [op |-> "none"]
    /\ scraper_unique_urls = {}
    /\ word_counts = [t \in Tokens |-> 0]
    /\ subdomain_counts = [h \in Hosts |-> 0]
    /\ longest_page = [url |-> NoneString, word_count |-> 0]
    /\ analytics_frame = [w \in Workers |-> NoFrame]
    /\ analytics_log = [calls |-> 0, counted |-> [u \in AnalyticsUrls |-> 0],
                        analysed |-> {}, stored |-> 0]
    /\ token_caught = [w \in Workers |-> FALSE]
    /\ max_ret = [w \in Workers |-> "none"]
    /\ skip_reason = [w \in Workers |-> "none"]
    /\ iter_wrote = [w \in Workers |-> FALSE]
    /\ max_log = <<max_save>>
    /\ token_seen = [t \in Tokens |-> 0]

Construct(pc0) == ConstructFrom(pc0, PriorRuns)

\* Crawler.start_async: every worker thread starts at the top of its loop.
Init == Construct("get_tbd_url")

\* ------------------------------------------------------------------ Robots
\* "with self.lock:" in _addSite: the thread waits until the lock is free
\* or its own.
Robots_lock_unguarded(w) == TRUE
Robots_lock_available(w) == RLockAvailable(robots_lock, w)

\* A network request started towards a host.
request(h) ==
    unwaited' = [unwaited EXCEPT ![h] = IF @ < MaxUnwaited THEN @ + 1 ELSE @]

\* Robots._addSite, entering the critical section.
_addSite(w) ==
    /\ pc[w] = "_addSite"
    /\ Robots_lock_available(w)
    /\ robots_lock' = RLockAcquire(robots_lock, w)
    /\ pc' = [pc EXCEPT ![w] = "_addSite_check"]
    /\ UNCHANGED <<restart, analyticsVars, token_caught, max_ret, skip_reason, frontier_last, iter_wrote, robots_loaded, pure, max_log, unsynced, frontierVars, retpc, tbd_url, exc, resp, robots_dict,
                   robots_save, rb_url, rb_op, rb_ret, skipVars, simhashVars,
                   maxVars, tokenVars, historyVars>>

\* Robots._addSite, "if not hashedUrl in self._robots": an absent host makes
\* the call of _checkRobot, which takes the lock again (it is re-entrant).
_addSite_check(w) ==
    /\ pc[w] = "_addSite_check"
    /\ IF Robots_getHashUrl(rb_url[w]) \in DOMAIN _robots
       THEN /\ pc' = [pc EXCEPT ![w] = "_addSite_exit"]
            /\ UNCHANGED robots_lock
       ELSE /\ pc' = [pc EXCEPT ![w] = "_checkRobot"]
            /\ robots_lock' = RLockAcquire(robots_lock, w)
    /\ UNCHANGED <<restart, analyticsVars, token_caught, max_ret, skip_reason, frontier_last, iter_wrote, robots_loaded, pure, max_log, unsynced, frontierVars, retpc, tbd_url, exc, resp, robots_dict,
                   robots_save, rb_url, rb_op, rb_ret, skipVars, simhashVars,
                   maxVars, tokenVars, historyVars>>

\* Robots._checkRobot, the writes of one branch: "self.save[urlhash] = ...",
\* "self._robots[urlhash] = ...", as the pair <<save, _robots>>.  Without
\* restart both names denote the shelve.
_checkRobot_memory_unmarked(save, robots, urlhash, res) ==
    <<Put(save, urlhash, res),
      IF restart
      THEN Put(robots, urlhash, IF res = None THEN [parsed |-> TRUE, disallow |-> {},
                                                    delay |-> <<>>, site_maps |-> <<>>]
                                              ELSE res)
      ELSE robots>>
_checkRobot_writes(save, robots, urlhash, res) ==
    <<Put(save, urlhash, res), IF restart THEN Put(robots, urlhash, res) ELSE robots>>

\* Robots._checkRobot: download robots.txt, store the parser or None in the
\* dictionary and in the save file, sync, and leave the inner "with".
_checkRobot(w) ==
    /\ pc[w] = "_checkRobot"
    /\ \E res \in RobotsTxt(rb_url[w].host) :
        LET url == _getBaseUrl(rb_url[w])
            urlhash == Robots_getHashUrl(url)
            written == _checkRobot_writes(robots_save, robots_dict, urlhash, res)
        IN  /\ request(url.host)
            /\ robots_fetches' = [robots_fetches EXCEPT ![url.host] = @ + 1]
            /\ robots_failed' = IF res = None THEN robots_failed \cup {url.host}
                                              ELSE robots_failed
            /\ robots_save' = written[1]
            /\ robots_dict' = written[2]
    /\ robots_lock' = RLockRelease(robots_lock)
    /\ pc' = [pc EXCEPT ![w] = "_addSite_exit"]
    /\ unsynced' = shelve_sync(shelve_write(unsynced, "robots"), "robots")
    /\ UNCHANGED <<restart, analyticsVars, token_caught, max_ret, skip_reason, frontier_last, iter_wrote, robots_loaded, pure, max_log, frontierVars, retpc, tbd_url, exc, resp, rb_url, rb_op,
                   rb_ret, skipVars, simhashVars, maxVars, tokenVars, sim_seen,
                   sim_peers, sim_mixed>>

\* Robots._addSite, leaving the critical section.
_addSite_exit(w) ==
    /\ pc[w] = "_addSite_exit"
    /\ robots_lock' = RLockRelease(robots_lock)
    /\ pc' = [pc EXCEPT ![w] = "robots_read"]
    /\ UNCHANGED <<restart, analyticsVars, token_caught, max_ret, skip_reason, frontier_last, iter_wrote, robots_loaded, pure, max_log, unsynced, frontierVars, retpc, tbd_url, exc, resp, robots_dict,
                   robots_save, rb_url, rb_op, rb_ret, skipVars, simhashVars,
                   maxVars, tokenVars, historyVars>>

\* Robots.can_fetch, after _addSite: a parser decides, None permits.
can_fetch_refusing(robot, url) ==
    IF robot.parsed THEN url.path \notin robot.disallow ELSE FALSE
can_fetch(robot, url) ==
    IF robot.parsed THEN url.path \notin robot.disallow ELSE TRUE

\* Robots.crawl_delay, after _addSite: the declared delay if it is truthy.
crawl_delay(robot) ==
    IF robot.parsed /\ robot.delay # <<>> /\ robot.delay[1] # 0
    THEN robot.delay[1]
    ELSE 0

\* Robots.sitemaps, after _addSite: None has no site_maps attribute.
sitemaps(robot) ==
    IF robot.parsed THEN robot.site_maps ELSE <<>>

\* The part of can_fetch, crawl_delay and sitemaps after self._addSite(url):
\* the record is read without the lock and the answer returned.
robots_read(w) ==
    /\ pc[w] = "robots_read"
    /\ LET robot == _robots[Robots_getHashUrl(rb_url[w])]
           val == CASE rb_op[w] = "can_fetch" -> can_fetch(robot, rb_url[w])
                    [] rb_op[w] = "crawl_delay" -> crawl_delay(robot)
                    [] OTHER -> sitemaps(robot)
       IN  rb_ret' = [rb_ret EXCEPT ![w] = [op |-> rb_op[w], val |-> val]]
    /\ pc' = [pc EXCEPT ![w] = retpc[w]]
    /\ UNCHANGED <<restart, analyticsVars, token_caught, max_ret, skip_reason, frontier_last, iter_wrote, robots_loaded, pure, max_log, unsynced, frontierVars, retpc, tbd_url, exc, resp, robots_dict,
                   robots_save, robots_lock, rb_url, rb_op, skipVars, simhashVars,
                   maxVars, tokenVars, historyVars>>

\* -------------------------------------------------------------------- Skip
\* "with self.lock:" in Skip.add_url.
Skip_lock_unguarded(w) == TRUE
Skip_lock_available(w) == RLockAvailable(skip_lock, w)

\* Skip._getHashUrl
Skip_getHashUrl(url) == get_urlhash(normalize(url))

\* Worker.run on a skip path: "self.skip.add_url(tbd_url)" is followed by
\* "self.frontier.mark_url_complete(tbd_url)" and "continue".
Skip_then_continue == "get_tbd_url"
Skip_then_complete == "mark_url_complete"
after_Skip_add_url(w) == IF retpc[w] = "idle" THEN "idle" ELSE Skip_then_complete

\* Skip.add_url, up to "if hashed_url not in self.save": a URL already saved
\* leaves the critical section at once.
Skip_add_url(w) ==
    /\ pc[w] = "Skip_add_url"
    /\ Skip_lock_available(w)
    /\ IF Skip_getHashUrl(tbd_url[w]) \in DOMAIN skip_save
       THEN /\ pc' = [pc EXCEPT ![w] = after_Skip_add_url(w)]
            /\ UNCHANGED skip_lock
       ELSE /\ pc' = [pc EXCEPT ![w] = "Skip_add_url_write"]
            /\ skip_lock' = RLockAcquire(skip_lock, w)
    /\ UNCHANGED <<restart, analyticsVars, token_caught, max_ret, skip_reason, frontier_last, iter_wrote, robots_loaded, pure, max_log, unsynced, frontierVars, retpc, tbd_url, exc, resp, robotsVars,
                   skip_dict, skip_save, simhashVars, maxVars, tokenVars,
                   historyVars>>

\* Skip.add_url: the two writes, the sync, the end of the critical section.
Skip_add_url_write(w) ==
    /\ pc[w] = "Skip_add_url_write"
    /\ LET hashed_url == Skip_getHashUrl(tbd_url[w])
       IN  /\ skip_save' = Put(skip_save, hashed_url, tbd_url[w])
           /\ skip_dict' = IF restart THEN Put(skip_dict, hashed_url, tbd_url[w])
                                      ELSE skip_dict
    /\ skip_lock' = RLockRelease(skip_lock)
    /\ pc' = [pc EXCEPT ![w] = after_Skip_add_url(w)]
    /\ unsynced' = shelve_sync(shelve_write(unsynced, "skip"), "skip")
    /\ UNCHANGED <<restart, analyticsVars, token_caught, max_ret, skip_reason, frontier_last, iter_wrote, robots_loaded, pure, max_log, frontierVars, retpc, tbd_url, exc, resp, robotsVars,
                   simhashVars, maxVars, tokenVars, historyVars>>

\* ---------------------------------------------------------------- Frontier
\* Worker.run goes on with the politeness wait; a caller of the Frontier on
\* its own gets the URL back.
after_get_tbd_url(w) == IF retpc[w] = "idle" THEN "idle" ELSE "wait_polite"

\* Frontier.get_tbd_url: one pending URL is handed out, or the empty signal;
\* on the empty signal Worker.run sleeps and polls again.
get_tbd_url(w) ==
    /\ pc[w] = "get_tbd_url"
    /\ \/ /\ to_be_downloaded = {}
          /\ UNCHANGED <<to_be_downloaded, pc, tbd_url>>
       \/ \E url \in to_be_downloaded :
            /\ to_be_downloaded' = to_be_downloaded \ {url}
            /\ tbd_url' = [tbd_url EXCEPT ![w] = url]
            /\ pc' = [pc EXCEPT ![w] = after_get_tbd_url(w)]
    /\ iter_wrote' = [iter_wrote EXCEPT ![w] = @ /\ to_be_downloaded' = to_be_downloaded]
    /\ UNCHANGED <<restart, analyticsVars, token_caught, max_ret, skip_reason, frontier_last, robots_loaded, pure, max_log, unsynced, frontier_save, retpc, exc, resp, robotsVars, skipVars,
                   simhashVars, maxVars, tokenVars, historyVars>>

\* Worker.run after "self.frontier.mark_url_complete(tbd_url)": "continue"
\* (without it the skip path at line 52 would fall through to download).
mark_then_fall_through == "download"
mark_then_continue == "get_tbd_url"

after_mark_url_complete(w) == IF retpc[w] = "idle" THEN "idle" ELSE mark_then_continue

\* Frontier.mark_url_complete sets the completed flag of an entry.
completed_toggled(completed) == ~completed
completed_set(completed) == TRUE

\* Frontier.mark_url_complete, the last call of an iteration of Worker.run.
mark_url_complete(w) ==
    /\ pc[w] = "mark_url_complete"
    /\ frontier_save' = [frontier_save EXCEPT ![normalize(tbd_url[w])] = completed_set(@)]
    /\ pc' = [pc EXCEPT ![w] = after_mark_url_complete(w)]
    /\ frontier_last' =
            [op |-> "mark_url_complete", url |-> tbd_url[w], present |-> TRUE,
             completed |-> frontier_save[normalize(tbd_url[w])]]
    /\ skip_reason' = [skip_reason EXCEPT ![w] = "none"]
    /\ UNCHANGED <<restart, analyticsVars, token_caught, max_ret, iter_wrote, robots_loaded, pure, max_log, unsynced, to_be_downloaded, retpc, tbd_url, exc, resp, robotsVars,
                   skipVars, simhashVars, maxVars, tokenVars, historyVars>>

\* Frontier.add_url: the key an entry is stored under.
add_url_key_raw(url) == url
add_url_key(url) == normalize(url)

\* Frontier.add_url(url), the URL held in tbd_url: a new entry is inserted
\* with completed=false and queued; an existing entry is left as it is.
add_url(w) ==
    /\ pc[w] = "add_url"
    /\ LET key == add_url_key(tbd_url[w])
       IN  IF key \in DOMAIN frontier_save
           THEN UNCHANGED <<frontier_save, to_be_downloaded>>
           ELSE /\ frontier_save' = Put(frontier_save, key, FALSE)
                /\ to_be_downloaded' = to_be_downloaded \cup {key}
    /\ pc' = [pc EXCEPT ![w] = "idle"]
    /\ frontier_last' =
            [op |-> "add_url", url |-> tbd_url[w],
             present |-> add_url_key(tbd_url[w]) \in DOMAIN frontier_save,
             completed |-> /\ add_url_key(tbd_url[w]) \in DOMAIN frontier_save
                           /\ frontier_save[add_url_key(tbd_url[w])]]
    /\ iter_wrote' = [iter_wrote EXCEPT ![w] = @ \/ DOMAIN frontier_save' # DOMAIN frontier_save]
    /\ UNCHANGED <<restart, analyticsVars, token_caught, max_ret, skip_reason, robots_loaded, pure, max_log, unsynced, retpc, tbd_url, exc, resp, robotsVars,
                   skipVars, simhashVars, maxVars, tokenVars, historyVars>>

\* -------------------------------------------------------------- Politeness
\* Politeness.wait_polite asks the Robots authority for the host's delay ...
wait_polite(w) ==
    /\ pc[w] = "wait_polite"
    /\ rb_url' = [rb_url EXCEPT ![w] = tbd_url[w]]
    /\ rb_op' = [rb_op EXCEPT ![w] = "crawl_delay"]
    /\ retpc' = [retpc EXCEPT ![w] = "wait_polite_sleep"]
    /\ pc' = [pc EXCEPT ![w] = "_addSite"]
    /\ UNCHANGED <<restart, analyticsVars, token_caught, max_ret, skip_reason, frontier_last, iter_wrote, robots_loaded, pure, max_log, unsynced, frontierVars, tbd_url, exc, resp, robots_dict, robots_save,
                   robots_lock, rb_ret, skipVars, simhashVars, maxVars, tokenVars,
                   historyVars>>

\* ... and returns once the host's cooldown has elapsed.
wait_polite_sleep(w) ==
    /\ pc[w] = "wait_polite_sleep"
    /\ unwaited' = [unwaited EXCEPT ![tbd_url[w].host] = 0]
    /\ pc' = [pc EXCEPT ![w] = "prep_download"]
    /\ UNCHANGED <<restart, analyticsVars, token_caught, max_ret, skip_reason, frontier_last, iter_wrote, robots_loaded, pure, max_log, unsynced, frontierVars, retpc, tbd_url, exc, resp, robotsVars,
                   skipVars, simhashVars, maxVars, tokenVars, robots_fetches,
                   robots_failed, sim_seen, sim_peers, sim_mixed>>

\* ------------------------------------------------------------------ Worker
\* Worker.run, "if not prep_download(...)": the probe of the headers.
prep_download(w) ==
    /\ pc[w] = "prep_download"
    /\ request(tbd_url[w].host)
    /\ \E ok \in BOOLEAN :
        pc' = [pc EXCEPT ![w] = IF ok THEN "download" ELSE "Skip_add_url"]
    /\ skip_reason' = [skip_reason EXCEPT ![w] =
            IF pc'[w] = "Skip_add_url" THEN "prep_download" ELSE @]
    /\ UNCHANGED <<restart, analyticsVars, token_caught, max_ret, frontier_last, iter_wrote, robots_loaded, pure, max_log, unsynced, frontierVars, retpc, tbd_url, exc, resp, robotsVars,
                   skipVars, simhashVars, maxVars, tokenVars, robots_fetches,
                   robots_failed, sim_seen, sim_peers, sim_mixed>>

\* Where Worker.run goes with a response: the emptiness check, the
\* content-length check (float() of a header that is no number raises
\* ValueError, which nothing in run catches), the word-count floor, and the
\* choice between the near-duplicate check and, for XML, found_new_max.
download_check(url, r) ==
    IF ~r.raw_response THEN "empty"
    ELSE IF r.content_length = "malformed" THEN "ValueError"
    ELSE IF r.content_length = "big" THEN "size"
    ELSE IF /\ ~url_ends_with_xml(url)
            /\ get_word_count_from_response(r) # 0
            /\ get_word_count_from_response(r) < LowInformationValue
         THEN "words"
    ELSE "pass"

after_download(url, r) ==
    IF download_check(url, r) = "ValueError" THEN "terminated"
    ELSE IF download_check(url, r) # "pass" THEN "Skip_add_url"
    ELSE IF ~url_ends_with_xml(url) THEN "check_page_is_similar"
    ELSE "found_new_max"

\* Worker.run, "resp = download(...)" and the checks made on resp alone.
download(w) ==
    /\ pc[w] = "download"
    /\ request(tbd_url[w].host)
    /\ \E r \in Responses(tbd_url[w]) :
        /\ resp' = [resp EXCEPT ![w] =
                IF r.raw_response THEN Resp(tbd_url[w], r.tokens) ELSE NoResp]
        /\ pc' = [pc EXCEPT ![w] = after_download(tbd_url[w], r)]
        /\ exc' = [exc EXCEPT ![w] =
                IF after_download(tbd_url[w], r) = "terminated" THEN "ValueError"
                                                                ELSE @]
        /\ skip_reason' = [skip_reason EXCEPT ![w] =
                IF after_download(tbd_url[w], r) = "Skip_add_url"
                THEN download_check(tbd_url[w], r) ELSE @]
    /\ retpc' = [retpc EXCEPT ![w] = "run"]
    /\ UNCHANGED <<restart, analyticsVars, token_caught, max_ret, frontier_last, iter_wrote, robots_loaded, pure, max_log, unsynced, frontierVars, tbd_url, robotsVars, skipVars,
                   simhashVars, maxVars, tokenVars, robots_fetches, robots_failed,
                   sim_seen, sim_peers, sim_mixed>>

\* ----------------------------------------------------------------- SimHash
\* "with self.lock:" in check_page_is_similar.
SimHash_lock_unguarded(w) == TRUE
SimHash_lock_available(w) == RLockAvailable(simhash_lock, w)

\* The workers inside check_page_is_similar.
InSimHash == {w \in Workers : pc[w] \in {"simhash_lock", "simhash_compare", "simhash_store"}}

\* Where the caller of check_page_is_similar goes with the answer: Worker.run
\* skips a similar page and goes on to found_new_max with another.
after_check_page_is_similar_inverted(w, similar) ==
    IF retpc[w] = "idle" THEN "idle"
    ELSE IF similar THEN "found_new_max" ELSE "Skip_add_url"
after_check_page_is_similar(w, similar) ==
    IF retpc[w] = "idle" THEN "idle"
    ELSE IF similar THEN "Skip_add_url" ELSE "found_new_max"

\* check_page_is_similar, before the lock: tokenize and hash the page.
check_page_is_similar(w) ==
    /\ pc[w] = "check_page_is_similar"
    /\ LET h == _hashify(_tokenize(resp[w]))
           active == InSimHash \ {w}
       IN  /\ page_hash' = [page_hash EXCEPT ![w] = h]
           /\ sim_peers' = [v \in Workers |->
                    IF v = w THEN active
                    ELSE IF v \in active THEN sim_peers[v] \cup {w}
                    ELSE sim_peers[v] \ {w}]
           /\ sim_mixed' = [v \in Workers |->
                    IF v = w THEN \E a \in active : page_hash[a] # h
                    ELSE IF v \in active THEN sim_mixed[v] \/ page_hash[v] # h
                    ELSE sim_mixed[v]]
    /\ sim_ret' = [sim_ret EXCEPT ![w] = "none"]
    /\ sim_seen' = [sim_seen EXCEPT ![w] = EmptyDict]
    /\ pc' = [pc EXCEPT ![w] = "simhash_lock"]
    /\ UNCHANGED <<restart, analyticsVars, token_caught, max_ret, skip_reason, frontier_last, iter_wrote, robots_loaded, pure, max_log, unsynced, frontierVars, retpc, tbd_url, exc, resp, robotsVars,
                   skipVars, hashes_dict, hashes_save, simhash_lock, maxVars,
                   tokenVars, unwaited, robots_fetches, robots_failed>>

\* check_page_is_similar, "with self.lock:".
simhash_lock_acquire(w) ==
    /\ pc[w] = "simhash_lock"
    /\ SimHash_lock_available(w)
    /\ simhash_lock' = RLockAcquire(simhash_lock, w)
    /\ sim_seen' = [sim_seen EXCEPT ![w] = hashes]
    /\ pc' = [pc EXCEPT ![w] = "simhash_compare"]
    /\ UNCHANGED <<restart, analyticsVars, token_caught, max_ret, skip_reason, frontier_last, iter_wrote, robots_loaded, pure, max_log, unsynced, frontierVars, retpc, tbd_url, exc, resp, robotsVars,
                   skipVars, hashes_dict, hashes_save, page_hash, sim_ret,
                   maxVars, tokenVars, unwaited, robots_fetches, robots_failed,
                   sim_peers, sim_mixed>>

\* check_page_is_similar, the loop over the saved hashes: "return True" on
\* the first similar one (the lock is released on the way out).
simhash_compare(w) ==
    /\ pc[w] = "simhash_compare"
    /\ IF similar_saved_hash(page_hash[w], hashes)
       THEN /\ simhash_lock' = RLockRelease(simhash_lock)
            /\ sim_ret' = [sim_ret EXCEPT ![w] = "True"]
            /\ pc' = [pc EXCEPT ![w] = after_check_page_is_similar(w, TRUE)]
       ELSE /\ pc' = [pc EXCEPT ![w] = "simhash_store"]
            /\ UNCHANGED <<simhash_lock, sim_ret>>
    /\ skip_reason' = [skip_reason EXCEPT ![w] =
            IF pc'[w] = "Skip_add_url" THEN "similar" ELSE @]
    /\ UNCHANGED <<restart, analyticsVars, token_caught, max_ret, frontier_last, iter_wrote, robots_loaded, pure, max_log, unsynced, frontierVars, retpc, tbd_url, exc, resp, robotsVars,
                   skipVars, hashes_dict, hashes_save, page_hash, maxVars,
                   tokenVars, historyVars>>

\* check_page_is_similar, no similar hash: store the page's hash under its
\* URL in both dictionaries, sync, release, "return False".
simhash_store(w) ==
    /\ pc[w] = "simhash_store"
    /\ hashes_save' = Put(hashes_save, resp[w].url, page_hash[w])
    /\ hashes_dict' = IF restart THEN Put(hashes_dict, resp[w].url, page_hash[w])
                                 ELSE hashes_dict
    /\ simhash_lock' = RLockRelease(simhash_lock)
    /\ sim_ret' = [sim_ret EXCEPT ![w] = "False"]
    /\ pc' = [pc EXCEPT ![w] = after_check_page_is_similar(w, FALSE)]
    /\ unsynced' = shelve_sync(shelve_write(unsynced, "simhash"), "simhash")
    /\ iter_wrote' = [iter_wrote EXCEPT ![w] = @ \/ hashes_save' # hashes_save]
    /\ UNCHANGED <<restart, analyticsVars, token_caught, max_ret, skip_reason, frontier_last, robots_loaded, pure, max_log, frontierVars, retpc, tbd_url, exc, resp, robotsVars,
                   skipVars, page_hash, maxVars, tokenVars, historyVars>>

\* ----------------------------------------------------------------- FindMax
\* "with self.lock:" in found_new_max.
FindMax_lock_unguarded(w) == TRUE
FindMax_lock_available(w) == RLockAvailable(max_lock, w)

\* Where the caller of found_new_max goes next: Worker.run calls
\* token.analyze_response.
after_found_new_max(w) ==
    IF retpc[w] = "idle" THEN "idle" ELSE "analyze_response"

\* found_new_max, up to the lock: a page without words returns False.
found_new_max(w) ==
    /\ pc[w] = "found_new_max"
    /\ \/ /\ get_word_count_from_response(resp[w]) = 0
          /\ pc' = [pc EXCEPT ![w] = after_found_new_max(w)]
          /\ UNCHANGED <<max_lock, max_log>>
       \/ /\ get_word_count_from_response(resp[w]) # 0
          /\ FindMax_lock_available(w)
          /\ max_lock' = RLockAcquire(max_lock, w)
          /\ max_log' = Append(max_log,
                [url |-> tbd_url[w],
                 max_words |-> get_word_count_from_response(resp[w])])
          /\ pc' = [pc EXCEPT ![w] = "found_new_max_locked"]
    /\ max_ret' = [max_ret EXCEPT ![w] =
            IF get_word_count_from_response(resp[w]) = 0 THEN "False" ELSE "none"]
    /\ UNCHANGED <<restart, analyticsVars, token_caught, skip_reason, frontier_last, iter_wrote, robots_loaded, pure, unsynced, frontierVars, retpc, tbd_url, exc, resp,
                   robotsVars, skipVars, simhashVars, max_save, tokenVars,
                   historyVars>>

\* "if word_count > self.curr_max["max_words"]"
exceeds_or_equals(word_count, max_words) == word_count >= max_words
exceeds(word_count, max_words) == word_count > max_words

\* found_new_max, under the lock: the comparison with the stored maximum; a
\* count that is not greater leaves the critical section and returns False.
found_new_max_locked(w) ==
    /\ pc[w] = "found_new_max_locked"
    /\ IF exceeds(get_word_count_from_response(resp[w]), max_save.max_words)
       THEN /\ pc' = [pc EXCEPT ![w] = "found_new_max_write"]
            /\ UNCHANGED max_lock
       ELSE /\ pc' = [pc EXCEPT ![w] = after_found_new_max(w)]
            /\ max_lock' = RLockRelease(max_lock)
    /\ max_ret' = [max_ret EXCEPT ![w] =
            IF pc'[w] = "found_new_max_write" THEN @ ELSE "False"]
    /\ UNCHANGED <<restart, analyticsVars, token_caught, skip_reason, frontier_last, iter_wrote, robots_loaded, pure, max_log, unsynced, frontierVars, retpc, tbd_url, exc, resp, robotsVars,
                   skipVars, simhashVars, max_save, tokenVars, historyVars>>

\* found_new_max, under the lock: the two writes of the record, the sync,
\* "return True".
found_new_max_write(w) ==
    /\ pc[w] = "found_new_max_write"
    /\ max_save' = [url |-> tbd_url[w],
                    max_words |-> get_word_count_from_response(resp[w])]
    /\ max_lock' = RLockRelease(max_lock)
    /\ pc' = [pc EXCEPT ![w] = after_found_new_max(w)]
    /\ unsynced' = shelve_sync(shelve_write(unsynced, "max"), "max")
    /\ iter_wrote' = [iter_wrote EXCEPT ![w] = @ \/ max_save' # max_save]
    /\ max_ret' = [max_ret EXCEPT ![w] = "True"]
    /\ UNCHANGED <<restart, analyticsVars, token_caught, skip_reason, frontier_last, robots_loaded, pure, max_log, frontierVars, retpc, tbd_url, exc, resp, robotsVars,
                   skipVars, simhashVars, tokenVars, historyVars>>

\* ------------------------------------------------------------------- Token
\* "with self.lock:" in analyze_response.
Token_lock_available(w) == RLockAvailable(token_lock, w)

\* Token._tokenize_url_content
Token_tokenize_url_content(r) == r.tokens

\* Token._computeWordFrequencies on separate dictionaries (restart): the
\* pair <<counter, save>> after the loop over tokenList.
RECURSIVE _computeWordFrequencies(_, _, _)
_computeWordFrequencies(tokenList, cnt, sv) ==
    IF tokenList = <<>> THEN <<cnt, sv>>
    ELSE LET token == Head(tokenList)
         IN  IF token \in DOMAIN cnt
             THEN _computeWordFrequencies(Tail(tokenList),
                      [cnt EXCEPT ![token] = @ + 1], [sv EXCEPT ![token] = @ + 1])
             ELSE _computeWordFrequencies(Tail(tokenList),
                      Put(cnt, token, 1), Put(sv, token, 1))

\* Token._computeWordFrequencies when counter IS save (no restart): both
\* statements of a branch write the one shelve.
RECURSIVE _computeWordFrequencies_shared(_, _)
_computeWordFrequencies_shared(tokenList, sv) ==
    IF tokenList = <<>> THEN sv
    ELSE LET token == Head(tokenList)
         IN  IF token \in DOMAIN sv
             THEN _computeWordFrequencies_shared(Tail(tokenList),
                      [sv EXCEPT ![token] = @ + 1 + 1])
             ELSE _computeWordFrequencies_shared(Tail(tokenList), Put(sv, token, 1))

\* Where the caller of analyze_response goes next: Worker.run logs and calls
\* scraper.scraper.
after_analyze_response(w) ==
    IF retpc[w] = "idle" THEN "idle" ELSE "scraper"

\* Token.analyze_response, entering the critical section.
analyze_response(w) ==
    /\ pc[w] = "analyze_response"
    /\ Token_lock_available(w)
    /\ token_lock' = RLockAcquire(token_lock, w)
    /\ pc' = [pc EXCEPT ![w] = "analyze_response_locked"]
    /\ UNCHANGED <<restart, analyticsVars, token_caught, max_ret, skip_reason, frontier_last, iter_wrote, robots_loaded, pure, max_log, unsynced, frontierVars, retpc, tbd_url, exc, resp, robotsVars,
                   skipVars, simhashVars, maxVars, token_dict, token_save,
                   token_seen, historyVars>>

\* Token._tokenize_url_content, "except Exception: ... return []": what is
\* returned when the parsing raises, whatever had been collected.
tokenize_failed_keeps(tokens) == tokens
tokenize_failed(tokens) == <<>>

\* Token.analyze_response, under the lock: tokenize (the parsing of the page
\* may raise), count, sync.
analyze_response_locked(w) ==
    /\ pc[w] = "analyze_response_locked"
    /\ \E raised \in BOOLEAN :
        LET res == IF raised THEN tokenize_failed(Token_tokenize_url_content(resp[w]))
                             ELSE Token_tokenize_url_content(resp[w])
        IN  /\ IF restart
               THEN LET both == _computeWordFrequencies(res, token_dict, token_save)
                    IN  token_dict' = both[1] /\ token_save' = both[2]
               ELSE /\ token_save' = _computeWordFrequencies_shared(res, token_save)
                    /\ UNCHANGED token_dict
            /\ token_seen' = [t \in Tokens |->
                    token_seen[t] + Cardinality({i \in DOMAIN res : res[i] = t})]
            /\ unsynced' = IF res = <<>> THEN unsynced
                           ELSE shelve_sync(shelve_write(unsynced, "token"), "token")
            /\ token_caught' = [token_caught EXCEPT ![w] = raised]
    /\ token_lock' = RLockRelease(token_lock)
    /\ pc' = [pc EXCEPT ![w] = after_analyze_response(w)]
    /\ iter_wrote' = [iter_wrote EXCEPT ![w] = @ \/ token_save' # token_save]
    /\ UNCHANGED <<restart, analyticsVars, max_ret, skip_reason, frontier_last, robots_loaded, pure, max_log, frontierVars, retpc, tbd_url, exc, resp, robotsVars,
                   skipVars, simhashVars, maxVars, historyVars>>

\* ----------------------------------------------------------------- scraper
\* Worker.run calls scraper.scraper(tbd_url, resp, self.robot); scraper takes
\* (url, resp), so the call raises TypeError.  Nothing in run catches it: the
\* thread ends, with the lines that add the links and mark the URL complete
\* never reached.
scraper(w) ==
    /\ pc[w] = "scraper"
    /\ pc' = [pc EXCEPT ![w] = "terminated"]
    /\ exc' = [exc EXCEPT ![w] = "TypeError"]
    /\ UNCHANGED <<restart, analyticsVars, token_caught, max_ret, skip_reason, frontier_last, iter_wrote, robots_loaded, pure, max_log, unsynced, frontierVars, retpc, tbd_url, resp, robotsVars,
                   skipVars, simhashVars, maxVars, tokenVars, historyVars>>

\* ------------------------------------------------------------ the crawl
Worker_run(w) ==
    \/ get_tbd_url(w)
    \/ wait_polite(w)
    \/ _addSite(w)
    \/ _addSite_check(w)
    \/ _checkRobot(w)
    \/ _addSite_exit(w)
    \/ robots_read(w)
    \/ wait_polite_sleep(w)
    \/ prep_download(w)
    \/ download(w)
    \/ Skip_add_url(w)
    \/ Skip_add_url_write(w)
    \/ mark_url_complete(w)
    \/ check_page_is_similar(w)
    \/ simhash_lock_acquire(w)
    \/ simhash_compare(w)
    \/ simhash_store(w)
    \/ found_new_max(w)
    \/ found_new_max_locked(w)
    \/ found_new_max_write(w)
    \/ analyze_response(w)
    \/ analyze_response_locked(w)
    \/ scraper(w)

Next == \E w \in Workers : Worker_run(w)

Spec == Init /\ [][Next]_vars

\* ------------------------------------------------------- the resumed crawl
\* What a fresh run leaves that took a:/p with the page x y through the
\* near-duplicate check and ended before found_new_max: the fingerprint of
\* the page, the robots record of its host, the max record of the
\* construction, and the URL not completed.
ResumedRuns ==
    {[completed |-> {}, skipped |-> EmptyDict,
      robots |-> Put(EmptyDict, Robots_getHashUrl(Url("a", "", "")), Policy({}, <<>>, <<>>)),
      max |-> [url |-> NoneString, max_words |-> 0],
      hashes |-> Put(EmptyDict, Url("a", "/p", ""),
                     _hashify(_tokenize(Resp(Url("a", "/p", ""), <<"x", "y">>))))]}

\* Crawler(config, restart=False) on those save files.
InitResume == ConstructFrom("get_tbd_url", ResumedRuns) /\ ~restart

SpecResume == InitResume /\ [][Next]_vars

\* ------------------------------------------- threads calling Robots directly
\* A thread calls can_fetch, crawl_delay or sitemaps with some URL.
Robots_call(w) ==
    /\ pc[w] = "idle"
    /\ \E op \in {"can_fetch", "crawl_delay", "sitemaps"}, url \in Urls :
        /\ rb_op' = [rb_op EXCEPT ![w] = op]
        /\ rb_url' = [rb_url EXCEPT ![w] = url]
    /\ pc' = [pc EXCEPT ![w] = "_addSite"]
    /\ UNCHANGED <<restart, analyticsVars, token_caught, max_ret, skip_reason, frontier_last, iter_wrote, robots_loaded, pure, max_log, unsynced, frontierVars, retpc, tbd_url, exc, resp, robots_dict,
                   robots_save, robots_lock, rb_ret, skipVars, simhashVars,
                   maxVars, tokenVars, historyVars>>

InitRobots == Construct("idle")

NextRobots ==
    \E w \in Workers :
        \/ Robots_call(w)
        \/ _addSite(w)
        \/ _addSite_check(w)
        \/ _checkRobot(w)
        \/ _addSite_exit(w)
        \/ robots_read(w)

SpecRobots == InitRobots /\ [][NextRobots]_vars

\* ------------------------------------------ threads calling SimHash directly
\* The pages the threads submit: a response URL and a text.
SimUrls == {Url("a", "/p", ""), Url("a", "/q", "")}
SimTexts == {<<"x">>, <<"x", "y">>, <<"z">>}

\* A thread calls check_page_is_similar with some response.
SimHash_call(w) ==
    /\ pc[w] = "idle"
    /\ \E url \in SimUrls, text \in SimTexts :
        resp' = [resp EXCEPT ![w] = Resp(url, text)]
    /\ pc' = [pc EXCEPT ![w] = "check_page_is_similar"]
    /\ UNCHANGED <<restart, analyticsVars, token_caught, max_ret, skip_reason, frontier_last, iter_wrote, robots_loaded, pure, max_log, unsynced, frontierVars, retpc, tbd_url, exc, robotsVars,
                   skipVars, simhashVars, maxVars, tokenVars, historyVars>>

InitSimHash == Construct("idle")

NextSimHash ==
    \E w \in Workers :
        \/ SimHash_call(w)
        \/ check_page_is_similar(w)
        \/ simhash_lock_acquire(w)
        \/ simhash_compare(w)
        \/ simhash_store(w)

SpecSimHash == InitSimHash /\ [][NextSimHash]_vars

\* ------------------------------------------ threads calling FindMax directly
\* The calls of found_new_max are counted up to this bound.
MaxMaxCalls == 2

\* The pages the threads submit: a URL and a text of 0 to 3 words.
MaxUrls == {Url("a", "/p", ""), Url("a", "/q", "")}
MaxTexts == {<<>>, <<"x">>, <<"x", "y">>, <<"x", "y", "z">>}

\* What an earlier run can have left in the max save file: nothing, or a
\* page of two words.
PriorMaxRuns ==
    PriorRuns \cup
    {[completed |-> {}, skipped |-> EmptyDict, robots |-> EmptyDict,
      max |-> [url |-> Url("b", "/p", ""), max_words |-> 2], hashes |-> EmptyDict]}

\* A thread calls found_new_max with some URL and response.
FindMax_call(w) ==
    /\ pc[w] = "idle"
    /\ Len(max_log) <= MaxMaxCalls
    /\ \E url \in MaxUrls, text \in MaxTexts :
        /\ tbd_url' = [tbd_url EXCEPT ![w] = url]
        /\ resp' = [resp EXCEPT ![w] = Resp(url, text)]
    /\ pc' = [pc EXCEPT ![w] = "found_new_max"]
    /\ UNCHANGED <<restart, analyticsVars, token_caught, max_ret, skip_reason, frontier_last, iter_wrote, robots_loaded, pure, max_log, unsynced, frontierVars, retpc, exc, robotsVars,
                   skipVars, simhashVars, maxVars, tokenVars, historyVars>>

InitFindMax == ConstructFrom("idle", PriorMaxRuns)

NextFindMax ==
    \E w \in Workers :
        \/ FindMax_call(w)
        \/ found_new_max(w)
        \/ found_new_max_locked(w)
        \/ found_new_max_write(w)

SpecFindMax == InitFindMax /\ [][NextFindMax]_vars

\* -------------------------------------------- threads calling Token directly
\* The occurrences of a token are counted up to this bound.
MaxTokenCount == 3

\* The token lists of the pages the threads submit.
TokenTexts == {<<"x">>, <<"x", "y">>, <<"y", "x", "x">>}

\* A thread calls analyze_response with some response.
Token_call(w) ==
    /\ pc[w] = "idle"
    /\ \A t \in Tokens : token_seen[t] < MaxTokenCount
    /\ \E url \in MaxUrls, text \in TokenTexts :
        resp' = [resp EXCEPT ![w] = Resp(url, text)]
    /\ pc' = [pc EXCEPT ![w] = "analyze_response"]
    /\ UNCHANGED <<restart, analyticsVars, token_caught, max_ret, skip_reason, frontier_last, iter_wrote, robots_loaded, pure, max_log, unsynced, frontierVars, retpc, tbd_url, exc,
                   robotsVars, skipVars, simhashVars, maxVars, tokenVars,
                   historyVars>>

InitToken == Construct("idle")

NextToken ==
    \E w \in Workers :
        \/ Token_call(w)
        \/ analyze_response(w)
        \/ analyze_response_locked(w)

SpecToken == InitToken /\ [][NextToken]_vars

\* --------------------------------------------- threads calling Skip directly
\* The URLs given to Skip.add_url: two strings of one normalized form, and
\* another URL.
SkipUrls == {Url("a", "/p", ""), Url("a", "/p", "top"), Url("a", "/q", "")}

\* A thread calls Skip.add_url with some URL.
Skip_call(w) ==
    /\ pc[w] = "idle"
    /\ \E url \in SkipUrls : tbd_url' = [tbd_url EXCEPT ![w] = url]
    /\ pc' = [pc EXCEPT ![w] = "Skip_add_url"]
    /\ UNCHANGED <<restart, analyticsVars, token_caught, max_ret, skip_reason, frontier_last, iter_wrote, robots_loaded, pure,
                   max_log, unsynced, frontierVars, retpc, exc, resp, robotsVars,
                   skipVars, simhashVars, maxVars, tokenVars, historyVars>>

InitSkip == Construct("idle")

NextSkip ==
    \E w \in Workers :
        \/ Skip_call(w)
        \/ Skip_add_url(w)
        \/ Skip_add_url_write(w)

SpecSkip == InitSkip /\ [][NextSkip]_vars

\* ----------------------------------------- threads calling Frontier directly
\* The URLs given to add_url: a seed with a fragment, and a link found on
\* a page without and with a fragment.
FrontierUrls == {Url("a", "/p", "top"), Url("a", "/r", ""), Url("a", "/r", "top")}

\* A thread calls add_url with any URL, get_tbd_url, or mark_url_complete
\* with a URL the Frontier has handed out.
Frontier_call(w) ==
    /\ pc[w] = "idle"
    /\ \/ \E url \in FrontierUrls :
            /\ tbd_url' = [tbd_url EXCEPT ![w] = url]
            /\ pc' = [pc EXCEPT ![w] = "add_url"]
       \/ /\ pc' = [pc EXCEPT ![w] = "get_tbd_url"]
          /\ UNCHANGED tbd_url
       \/ \E url \in (DOMAIN frontier_save) \ to_be_downloaded :
            /\ tbd_url' = [tbd_url EXCEPT ![w] = url]
            /\ pc' = [pc EXCEPT ![w] = "mark_url_complete"]
    /\ UNCHANGED <<restart, analyticsVars, token_caught, max_ret, skip_reason, frontier_last, iter_wrote, robots_loaded, pure, max_log, unsynced, frontierVars, retpc, exc, resp,
                   robotsVars, skipVars, simhashVars, maxVars, tokenVars, historyVars>>

InitFrontier == Construct("idle")

NextFrontier ==
    \E w \in Workers :
        \/ Frontier_call(w)
        \/ add_url(w)
        \/ get_tbd_url(w)
        \/ mark_url_complete(w)

SpecFrontier == InitFrontier /\ [][NextFrontier]_vars

\* ------------------------------------------- functions applied on their own
\* The fingerprints of the model's width, as _hashify formats them.
Fingerprints == {format_x(n) : n \in 0..((2 ^ BitLength) - 1)}

\* SimHash._compare_hashes applied to two fingerprints.
Compare_hashes_call ==
    /\ \E hash1, hash2 \in Fingerprints :
        pure' = [fn |-> "_compare_hashes", hash1 |-> hash1, hash2 |-> hash2,
                 ret |-> _compare_hashes(hash1, hash2)]
    /\ UNCHANGED <<restart, analyticsVars, token_caught, max_ret, skip_reason, frontier_last, iter_wrote, robots_loaded, max_log, unsynced, frontierVars, workerVars, robotsVars,
                   skipVars, simhashVars, maxVars, tokenVars, historyVars>>

\* SaveChecker._normalize_url: urlparse, the fragment replaced by "",
\* urlunparse.
_normalize_url(url) == [url EXCEPT !.frag = ""]

\* SaveChecker.unique_pages on the Frontier's and the Skip Set's save files.
unique_pages(frontier, skip) ==
    LET urls == {url_tuple[1] : url_tuple \in Values(frontier)}
        skipped == Values(skip)
        unique_urls == {_normalize_url(url) : url \in {u \in urls : ~(u \in skipped)}}
    IN  Cardinality(unique_urls)

\* The URLs of the save files given to the report.
ReportUrls == {u \in Urls : u.host = "a"}

\* Frontier save files: urlhash -> (url, completed).
FrontierSaves ==
    UNION {{[k \in {get_urlhash(u) : u \in F} |->
                <<CHOOSE u \in F : get_urlhash(u) = k, k \in {get_urlhash(u) : u \in C}>>] :
            C \in SUBSET F} : F \in SUBSET ReportUrls}

\* The Skip Sets that calls of Skip.add_url on entries of a Frontier save
\* file leave: one record per key, holding the URL of the first call.
SkipSaves(frontier) ==
    LET urls == {url_tuple[1] : url_tuple \in Values(frontier)}
    IN  UNION {{d \in [K -> urls] : \A k \in K : Skip_getHashUrl(d[k]) = k} :
               K \in SUBSET {Skip_getHashUrl(u) : u \in urls}}

\* SaveChecker.unique_pages applied to a pair of save files.
Unique_pages_call ==
    /\ \E frontier \in FrontierSaves : \E skip \in SkipSaves(frontier) :
        pure' = [fn |-> "unique_pages", frontier |-> frontier, skip |-> skip,
                 ret |-> unique_pages(frontier, skip)]
    /\ UNCHANGED <<restart, analyticsVars, token_caught, max_ret, skip_reason, frontier_last, iter_wrote, robots_loaded, max_log, unsynced, frontierVars, workerVars, robotsVars,
                   skipVars, simhashVars, maxVars, tokenVars, historyVars>>

\* The greatest frequency of a token in the maps given to _hashify.
MaxFreq == 2

\* The token-frequency maps: some tokens, each with its frequency.
TokenFreqDicts == UNION {[T -> 1..MaxFreq] : T \in SUBSET Tokens}

\* SimHash._hashify applied to a token-frequency map.
Hashify_call ==
    /\ \E token_freq_dict \in TokenFreqDicts :
        pure' = [fn |-> "_hashify", token_freq_dict |-> token_freq_dict,
                 ret |-> _hashify(token_freq_dict)]
    /\ UNCHANGED <<restart, analyticsVars, token_caught, max_ret, skip_reason, frontier_last, iter_wrote, robots_loaded, max_log, unsynced,
                   frontierVars, workerVars, robotsVars, skipVars, simhashVars, maxVars,
                   tokenVars, historyVars>>

InitPure == Construct("idle")

NextPure ==
    \/ Compare_hashes_call
    \/ Unique_pages_call
    \/ Hashify_call

SpecPure == InitPure /\ [][NextPure]_vars

\* --------------------------------------------------------- scraper analytics
\* The calls of scraper.update_analytics started in a run of its harness.
MaxAnalyticsCalls == 3

\* The occurrences of token t in a token list.
CountOf(t, words) == Cardinality({i \in DOMAIN words : words[i] = t})

\* host.endswith(".ics.uci.edu")
endswith_ics_uci_edu(host) == host = "a"

\* A thread calls update_analytics(page_url, words).
update_analytics_call(w) ==
    /\ pc[w] = "idle"
    /\ analytics_frame[w].pc = "idle"
    /\ analytics_log.calls < MaxAnalyticsCalls
    /\ \E page_url \in AnalyticsUrls, words \in AnalyticsWords :
        analytics_frame' = [analytics_frame EXCEPT
            ![w] = [pc |-> "check", page_url |-> page_url, words |-> words, wc |-> 0]]
    /\ analytics_log' = [analytics_log EXCEPT !.calls = @ + 1]
    /\ UNCHANGED <<restart, scraper_unique_urls, word_counts, subdomain_counts, longest_page,
                   token_caught, max_ret, skip_reason, frontier_last, iter_wrote,
                   robots_loaded, pure, max_log, unsynced, frontierVars, workerVars,
                   robotsVars, skipVars, simhashVars, maxVars, tokenVars, historyVars>>

\* if page_url in unique_urls: return
update_analytics_check(w) ==
    /\ analytics_frame[w].pc = "check"
    /\ analytics_frame' = [analytics_frame EXCEPT
            ![w] = IF analytics_frame[w].page_url \in scraper_unique_urls
                   THEN NoFrame ELSE [@ EXCEPT !.pc = "add"]]
    /\ UNCHANGED <<restart, scraper_unique_urls, word_counts, subdomain_counts, longest_page,
                   analytics_log,
                   token_caught, max_ret, skip_reason, frontier_last, iter_wrote,
                   robots_loaded, pure, max_log, unsynced, frontierVars, workerVars,
                   robotsVars, skipVars, simhashVars, maxVars, tokenVars, historyVars>>

\* unique_urls.add(page_url)
update_analytics_add(w) ==
    /\ analytics_frame[w].pc = "add"
    /\ scraper_unique_urls' = scraper_unique_urls \cup {analytics_frame[w].page_url}
    /\ analytics_frame' = [analytics_frame EXCEPT ![w].pc = "update"]
    /\ UNCHANGED <<restart, word_counts, subdomain_counts, longest_page, analytics_log,
                   token_caught, max_ret, skip_reason, frontier_last, iter_wrote,
                   robots_loaded, pure, max_log, unsynced, frontierVars, workerVars,
                   robotsVars, skipVars, simhashVars, maxVars, tokenVars, historyVars>>

\* word_counts.update(words); wc = len(words)
update_analytics_update(w) ==
    /\ analytics_frame[w].pc = "update"
    /\ word_counts' = [t \in Tokens |->
            word_counts[t] + CountOf(t, analytics_frame[w].words)]
    /\ analytics_frame' = [analytics_frame EXCEPT
            ![w].pc = "compare", ![w].wc = Len(analytics_frame[w].words)]
    /\ analytics_log' = [analytics_log EXCEPT
            !.counted[analytics_frame[w].page_url] = @ + 1,
            !.analysed = @ \cup {Len(analytics_frame[w].words)}]
    /\ UNCHANGED <<restart, scraper_unique_urls, subdomain_counts, longest_page,
                   token_caught, max_ret, skip_reason, frontier_last, iter_wrote,
                   robots_loaded, pure, max_log, unsynced, frontierVars, workerVars,
                   robotsVars, skipVars, simhashVars, maxVars, tokenVars, historyVars>>

\* if wc > longest_page["word_count"]:
update_analytics_compare(w) ==
    /\ analytics_frame[w].pc = "compare"
    /\ analytics_frame' = [analytics_frame EXCEPT
            ![w].pc = IF analytics_frame[w].wc > longest_page.word_count
                      THEN "assign" ELSE "host"]
    /\ UNCHANGED <<restart, scraper_unique_urls, word_counts, subdomain_counts, longest_page,
                   analytics_log,
                   token_caught, max_ret, skip_reason, frontier_last, iter_wrote,
                   robots_loaded, pure, max_log, unsynced, frontierVars, workerVars,
                   robotsVars, skipVars, simhashVars, maxVars, tokenVars, historyVars>>

\* longest_page = {"url": page_url, "word_count": wc}
update_analytics_assign(w) ==
    /\ analytics_frame[w].pc = "assign"
    /\ longest_page' = [url |-> analytics_frame[w].page_url,
                        word_count |-> analytics_frame[w].wc]
    /\ analytics_frame' = [analytics_frame EXCEPT ![w].pc = "host"]
    /\ analytics_log' = [analytics_log EXCEPT
            !.stored = IF analytics_frame[w].wc > @ THEN analytics_frame[w].wc ELSE @]
    /\ UNCHANGED <<restart, scraper_unique_urls, word_counts, subdomain_counts,
                   token_caught, max_ret, skip_reason, frontier_last, iter_wrote,
                   robots_loaded, pure, max_log, unsynced, frontierVars, workerVars,
                   robotsVars, skipVars, simhashVars, maxVars, tokenVars, historyVars>>

\* if host.endswith(".ics.uci.edu"): subdomain_counts[host] += 1
update_analytics_host(w) ==
    /\ analytics_frame[w].pc = "host"
    /\ subdomain_counts' =
            IF endswith_ics_uci_edu(analytics_frame[w].page_url.host)
            THEN [subdomain_counts EXCEPT ![analytics_frame[w].page_url.host] = @ + 1]
            ELSE subdomain_counts
    /\ analytics_frame' = [analytics_frame EXCEPT ![w] = NoFrame]
    /\ UNCHANGED <<restart, scraper_unique_urls, word_counts, longest_page, analytics_log,
                   token_caught, max_ret, skip_reason, frontier_last, iter_wrote,
                   robots_loaded, pure, max_log, unsynced, frontierVars, workerVars,
                   robotsVars, skipVars, simhashVars, maxVars, tokenVars, historyVars>>

InitAnalytics == Construct("idle")

NextAnalytics ==
    \E w \in Workers :
        \/ update_analytics_call(w)
        \/ update_analytics_check(w)
        \/ update_analytics_add(w)
        \/ update_analytics_update(w)
        \/ update_analytics_compare(w)
        \/ update_analytics_assign(w)
        \/ update_analytics_host(w)

SpecAnalytics == InitAnalytics /\ [][NextAnalytics]_vars

\* ================================================================ properties
\* The record the Robots authority holds for the host of a URL.
RobotOf(url) == _robots[Robots_getHashUrl(url)]

\* C1, as stated: in every reachable state, also between two actions of one
\* worker, every URL recorded in the skip set is completed in the frontier
\* under its normalized form.
C1_SkippedIsCompleted ==
    \A k \in DOMAIN skip_set : frontier_save[normalize(skip_set[k])]

\* C1, amended: in every reachable state every URL recorded in the skip set
\* is completed in the frontier under its normalized form, or a worker that
\* has just recorded it is about to mark it complete as its next action.
C1_SkippedIsCompletedOrPending ==
    \A k \in DOMAIN skip_set :
        \/ frontier_save[normalize(skip_set[k])]
        \/ \E w \in Workers :
            /\ pc[w] = "mark_url_complete"
            /\ normalize(tbd_url[w]) = normalize(skip_set[k])

\* A fresh run has skipped a URL and marked it complete.
C1_Witness ==
    /\ restart
    /\ \E k \in DOMAIN skip_set : frontier_save[normalize(skip_set[k])]

\* C2: a URL popped by a worker is eventually marked complete by it, on the
\* non-skip path too; so a worker that has stopped on the non-skip path has
\* left its URL completed.
C2_PoppedIsCompleted ==
    \A w \in Workers :
        (pc[w] = "terminated" /\ exc[w] = "TypeError")
            => frontier_save[normalize(tbd_url[w])]

\* C3: a failure raised while a worker processes a URL becomes a skip of that
\* URL and the worker keeps running its loop.
C3_FailureBecomesSkip ==
    \A w \in Workers :
        exc[w] # "none" =>
            /\ pc[w] # "terminated"
            /\ Skip_getHashUrl(tbd_url[w]) \in DOMAIN skip_set

\* C4: no two requests to a host start without a politeness wait for that
\* host completing between them.
C4_WaitBetweenRequests ==
    \A h \in Hosts : unwaited[h] <= 1

\* C5: robots.txt of a host is downloaded at most once per run, only for a
\* host without a record, and a host's record is never replaced or removed.
C5_RobotsFetchedOnce ==
    /\ [](\A h \in Hosts :
            /\ robots_fetches[h] <= 1
            /\ robots_fetches[h] = 1 =>
                    Robots_getHashUrl(Url(h, "", "")) \in DOMAIN _robots)
    /\ [][/\ \A k \in DOMAIN _robots :
                k \in DOMAIN _robots' /\ _robots'[k] = _robots[k]
          /\ \A h \in Hosts :
                robots_fetches'[h] # robots_fetches[h] =>
                    Robots_getHashUrl(Url(h, "", "")) \notin DOMAIN _robots]_vars

\* Two threads asked about one unresolved host at once: one has downloaded
\* its robots.txt, the other still waits for the lock.
C5_Witness ==
    \E w1, w2 \in Workers :
        /\ pc[w1] = "_addSite_exit"
        /\ pc[w2] = "_addSite"
        /\ rb_url[w1].host = rb_url[w2].host
        /\ robots_fetches[rb_url[w1].host] = 1

\* C6: a failed robots.txt download raises nothing, leaves the sentinel None
\* for the host in the in-memory dictionary and in the save file, and is not
\* tried again.
C6_FailedFetchRecorded ==
    /\ \A h \in robots_failed :
        LET urlhash == Robots_getHashUrl(Url(h, "", ""))
        IN  /\ urlhash \in DOMAIN _robots
            /\ _robots[urlhash] = None
            /\ urlhash \in DOMAIN robots_save
            /\ robots_save[urlhash] = None
            /\ robots_fetches[h] = 1
    /\ \A w \in Workers : exc[w] = "none" /\ pc[w] # "terminated"

\* In a fresh run a download failed, and a later call about the same host
\* has returned to its caller.
C6_Witness ==
    /\ restart
    /\ \E w \in Workers :
        /\ pc[w] = "idle"
        /\ rb_ret[w].op # "none"
        /\ rb_url[w].host \in robots_failed
        /\ \E v \in Workers \ {w} :
            /\ pc[v] = "idle"
            /\ rb_ret[v].op # "none"
            /\ rb_url[v].host = rb_url[w].host

\* C7: for a host holding None, can_fetch returns true, crawl_delay 0 and
\* sitemaps the empty sequence; for a host with a parsed policy crawl_delay
\* returns the declared delay, or 0 when none is declared, never a negative
\* value.
C7_RobotsAnswers ==
    \A w \in Workers :
        (pc[w] = "idle" /\ rb_ret[w].op # "none") =>
            LET robot == RobotOf(rb_url[w])
                val == rb_ret[w].val
            IN  /\ (robot = None /\ rb_ret[w].op = "can_fetch") => val = TRUE
                /\ (robot = None /\ rb_ret[w].op = "crawl_delay") => val = 0
                /\ (robot = None /\ rb_ret[w].op = "sitemaps") => val = <<>>
                /\ (robot # None /\ rb_ret[w].op = "crawl_delay") =>
                        /\ val = IF robot.delay = <<>> THEN 0 ELSE robot.delay[1]
                        /\ val \in Nat

\* One thread was permitted a URL of a host holding None; another was told
\* the delay a parsed policy declares.
C7_Witness ==
    \E w1, w2 \in Workers :
        /\ pc[w1] = "idle"
        /\ rb_ret[w1].op = "can_fetch"
        /\ RobotOf(rb_url[w1]) = None
        /\ rb_ret[w1].val = TRUE
        /\ pc[w2] = "idle"
        /\ rb_ret[w2].op = "crawl_delay"
        /\ RobotOf(rb_url[w2]) # None
        /\ RobotOf(rb_url[w2]).delay # <<>>
        /\ rb_ret[w2].val = RobotOf(rb_url[w2]).delay[1]
        /\ rb_ret[w2].val > 0

\* C8: a worker never issues the probe or the full fetch for a URL for which
\* Robots.can_fetch returns false.
C8_RobotsGate ==
    \A w \in Workers :
        pc[w] \in {"prep_download", "download"} =>
            can_fetch(RobotOf(tbd_url[w]), tbd_url[w])

\* The number of bit positions in which two fingerprints agree.
MatchingBits(hash1, hash2) ==
    Cardinality({i \in 0..(BitLength - 1) :
                    Bit(int16(hash1), i) = Bit(int16(hash2), i)})

\* Some fingerprint of a store agrees with the page's one in at least the
\* threshold's share of the bit positions.
StoreHasSimilar(hash, store) ==
    \E url \in DOMAIN store :
        MatchingBits(hash, store[url]) * ThresholdDen >= ThresholdNum * BitLength

\* C9: of two overlapping calls of check_page_is_similar with equal
\* fingerprints (and no call with another fingerprint overlapping them), made
\* when nothing similar was stored, exactly one returns False and the other
\* returns True.
C9_OneNotDuplicate ==
    \A w1, w2 \in Workers :
        (/\ w1 # w2
         /\ sim_ret[w1] # "none" /\ sim_ret[w2] # "none"
         /\ w2 \in sim_peers[w1] /\ w1 \in sim_peers[w2]
         /\ page_hash[w1] = page_hash[w2]
         /\ ~sim_mixed[w1] /\ ~sim_mixed[w2]
         /\ ~StoreHasSimilar(page_hash[w1], sim_seen[w1]))
            => (sim_ret[w1] = "False" /\ sim_ret[w2] = "True")

\* Two overlapping calls with one fingerprint have returned, the first with
\* False, the second with True.
C9_Witness ==
    \E w1, w2 \in Workers :
        /\ w1 # w2
        /\ w2 \in sim_peers[w1] /\ w1 \in sim_peers[w2]
        /\ page_hash[w1] = page_hash[w2]
        /\ ~sim_mixed[w1] /\ ~sim_mixed[w2]
        /\ sim_ret[w1] = "False"
        /\ sim_ret[w2] = "True"

\* C10: check_page_is_similar returns True exactly when the store, as it was
\* when the call took the lock, holds a fingerprint whose similarity to the
\* page's one reaches the threshold; with an empty store it returns False.
C10_SimilarIffStored ==
    \A w \in Workers :
        sim_ret[w] # "none" =>
            /\ sim_ret[w] = "True" <=> StoreHasSimilar(page_hash[w], sim_seen[w])
            /\ DOMAIN sim_seen[w] = {} => sim_ret[w] = "False"

\* A call returned True for a page whose fingerprint is not stored but
\* agrees with a stored one in exactly the threshold's share of the bits.
C10_Witness ==
    \E w \in Workers :
        /\ sim_ret[w] = "True"
        /\ page_hash[w] \notin Values(sim_seen[w])
        /\ \E url \in DOMAIN sim_seen[w] :
            MatchingBits(page_hash[w], sim_seen[w][url]) * ThresholdDen
                = ThresholdNum * BitLength

\* C11: the fingerprint stored by a call of check_page_is_similar that
\* returned False is held under the page's URL by the in-memory dictionary
\* and by the save file, where every later call compares against it.
C11_StoredStaysCompared ==
    \A w \in Workers :
        (pc[w] = "idle" /\ sim_ret[w] = "False") =>
            /\ resp[w].url \in DOMAIN hashes
            /\ hashes[resp[w].url] = page_hash[w]
            /\ resp[w].url \in DOMAIN hashes_save
            /\ hashes_save[resp[w].url] = page_hash[w]

\* C12: the fingerprint stored under a URL is never overwritten or removed.
C12_AppendOnly ==
    [][\A url \in DOMAIN hashes :
            url \in DOMAIN hashes' /\ hashes'[url] = hashes[url]]_vars

\* C13: the similarity of two fingerprints of the declared width is the same
\* in both orders, is 1 for a fingerprint and itself, and lies in [0, 1].
C13_SimilarityLaws ==
    pure.fn = "_compare_hashes" =>
        /\ pure.ret = _compare_hashes(pure.hash2, pure.hash1)
        /\ pure.hash1 = pure.hash2 => pure.ret[1] = pure.ret[2]
        /\ 0 <= pure.ret[1] /\ pure.ret[1] <= pure.ret[2] /\ pure.ret[2] > 0

\* Two fingerprints that agree in some bits and differ in others were
\* compared.
C13_Witness ==
    /\ pure.fn = "_compare_hashes"
    /\ pure.hash1 # pure.hash2
    /\ 0 < pure.ret[1] /\ pure.ret[1] < pure.ret[2]

\* The greatest word count of a log of found_new_max calls.
MaxWords(log) ==
    CHOOSE m \in {log[i].max_words : i \in DOMAIN log} :
        \A i \in DOMAIN log : log[i].max_words <= m

\* The first record of a log that holds its greatest word count.
FirstMax(log) ==
    log[CHOOSE i \in DOMAIN log :
            /\ log[i].max_words = MaxWords(log)
            /\ \A j \in DOMAIN log : log[j].max_words = MaxWords(log) => i <= j]

\* C14: whenever no call of found_new_max is inside the critical section, the
\* stored max_words is the greatest of the initial value and the word counts
\* submitted, and the stored url is that of the first call to take the lock
\* with that count (the initial url if none exceeded it); the stored
\* max_words never decreases.
C14_MaxIsKept ==
    /\ [](max_lock = FreeLock => max_save = FirstMax(max_log))
    /\ [][max_save'.max_words >= max_save.max_words]_vars

\* Two calls submitted the same count above the initial value, a lower one
\* came later, and the first of the two is the one stored.
C14_Witness ==
    /\ max_lock = FreeLock
    /\ \A w \in Workers : pc[w] = "idle"
    /\ Len(max_log) = 4
    /\ max_log[1].max_words = 2
    /\ max_log[2].max_words = 3
    /\ max_log[3].max_words = 3
    /\ max_log[3].url # max_log[2].url
    /\ max_log[4].max_words = 1
    /\ max_save = max_log[2]

\* C15: with restart true or false, the stored count of each token is the
\* number of its occurrences over the pages analysed (the save file of the
\* model starts empty), in the counter and in the save file.
C15_CountsAreOccurrences ==
    \A t \in Tokens :
        /\ (t \in DOMAIN counter) <=> token_seen[t] > 0
        /\ t \in DOMAIN counter => counter[t] = token_seen[t]
        /\ (t \in DOMAIN token_save) <=> token_seen[t] > 0
        /\ t \in DOMAIN token_save => token_save[t] = token_seen[t]

AnswerFrom(robot, op, url) ==
    CASE op = "can_fetch" -> can_fetch(robot, url)
      [] op = "crawl_delay" -> crawl_delay(robot)
      [] OTHER -> sitemaps(robot)

\* C17: in a run resumed without restart, the robots.txt of a host whose
\* record was in the save file is not downloaded, the record stays as it was
\* persisted, and every query about the host is answered from it.
C17_PersistedRecordServes ==
    \A h \in Hosts :
        LET urlhash == Robots_getHashUrl(Url(h, "", ""))
        IN  urlhash \in DOMAIN robots_loaded =>
                /\ robots_fetches[h] = 0
                /\ urlhash \in DOMAIN _robots
                /\ _robots[urlhash] = robots_loaded[urlhash]
                /\ \A w \in Workers :
                    (/\ pc[w] = "idle"
                     /\ rb_ret[w].op # "none"
                     /\ rb_url[w].host = h)
                        => rb_ret[w].val =
                            AnswerFrom(robots_loaded[urlhash], rb_ret[w].op, rb_url[w])

\* In a resumed run a query about a host persisted with None and a query
\* about a host persisted with a parsed policy have both been answered.
C17_Witness ==
    /\ ~restart
    /\ \E w1, w2 \in Workers :
        /\ pc[w1] = "idle" /\ rb_ret[w1].op = "can_fetch"
        /\ Robots_getHashUrl(rb_url[w1]) \in DOMAIN robots_loaded
        /\ robots_loaded[Robots_getHashUrl(rb_url[w1])] = None
        /\ pc[w2] = "idle" /\ rb_ret[w2].op = "crawl_delay"
        /\ Robots_getHashUrl(rb_url[w2]) \in DOMAIN robots_loaded
        /\ robots_loaded[Robots_getHashUrl(rb_url[w2])] # None
        /\ robots_fetches = [h \in Hosts |-> 0]

C19_InFlightIsPending ==
    \A w \in Workers :
        pc[w] # "get_tbd_url" => normalize(tbd_url[w]) \in Pending(frontier_save)

\* One worker is about to mark its URL complete and another has stopped in
\* the middle of its iteration.
C19_Witness ==
    \E w1, w2 \in Workers :
        /\ pc[w1] = "mark_url_complete"
        /\ pc[w2] = "terminated"
        /\ {normalize(tbd_url[w1]), normalize(tbd_url[w2])} \subseteq Pending(frontier_save)

C21_OneEntryPerUrl ==
    /\ [](/\ \A u, v \in DOMAIN frontier_save : normalize(u) = normalize(v) => u = v
          /\ to_be_downloaded \subseteq Pending(frontier_save))
    /\ [][\A w \in Workers :
            (pc[w] = "add_url" /\ pc'[w] = "idle"
             /\ normalize(tbd_url[w]) \in DOMAIN frontier_save)
            => UNCHANGED frontierVars]_vars

\* add_url has acted on a fragment variant of a URL that had been added,
\* handed out and completed, while another add_url is under way.
C21_Witness ==
    /\ frontier_last.op = "add_url"
    /\ frontier_last.url = Url("a", "/r", "top")
    /\ frontier_last.present
    /\ frontier_save[Url("a", "/r", "")]
    /\ frontier_save[Url("a", "/p", "")]
    /\ \E w \in Workers : pc[w] = "add_url"

\* C22: mark_url_complete, concurrent with get_tbd_url and add_url of other
\* threads, leaves its URL completed; a second call for a completed URL
\* changes nothing; no step of any operation returns a completed entry to
\* completed=false or deletes an entry.
C22_MarkIdempotentMonotone ==
    [][/\ \A u \in DOMAIN frontier_save :
            /\ u \in DOMAIN frontier_save'
            /\ frontier_save[u] => frontier_save'[u]
       /\ \A w \in Workers :
            (pc[w] = "mark_url_complete" /\ pc'[w] = "idle")
            => /\ frontier_save'[normalize(tbd_url[w])]
               /\ frontier_save[normalize(tbd_url[w])] => UNCHANGED frontierVars]_vars

\* A second mark_url_complete of a URL has acted while another thread is
\* inside add_url or get_tbd_url.
C22_Witness ==
    /\ frontier_last.op = "mark_url_complete"
    /\ frontier_last.completed
    /\ \E w \in Workers : pc[w] \in {"add_url", "get_tbd_url"}

PastWordCountFloor ==
    {"check_page_is_similar", "simhash_lock", "simhash_compare", "simhash_store",
     "found_new_max", "found_new_max_locked", "found_new_max_write",
     "analyze_response", "analyze_response_locked", "scraper"}

\* C24: a non-XML URL whose page has a word count below the floor, a count
\* of 0 included, is skipped: no worker holding such a page is past the
\* floor check, at the near-duplicate check, the max-words update, the token
\* count or the link extraction.
C24_FewWordsAreSkipped ==
    \A w \in Workers :
        (/\ pc[w] \in PastWordCountFloor
         /\ ~url_ends_with_xml(tbd_url[w]))
        => get_word_count_from_response(resp[w]) >= LowInformationValue

\* The URLs whose string ends in ".xml": the last component is the path.
EndsInXml(url) == url.frag = "" /\ url.path \in XmlPaths

\* C25: a worker holding a URL that ends in .xml is never inside the
\* near-duplicate check and never skips the URL for a low word count or for
\* similarity, and no key of the SimHash store is an XML URL.
C25_XmlIsExempt ==
    /\ \A w \in Workers :
        EndsInXml(tbd_url[w])
        => /\ pc[w] \notin {"check_page_is_similar", "simhash_lock",
                            "simhash_compare", "simhash_store"}
           /\ skip_reason[w] \notin {"words", "similar"}
    /\ \A u \in DOMAIN hashes : ~EndsInXml(u)

\* A worker has taken an XML page of one word, under the floor, past the two
\* checks, while the page of another URL is in the SimHash store.
C25_Witness ==
    \E w \in Workers :
        /\ EndsInXml(tbd_url[w])
        /\ pc[w] \in {"found_new_max_locked", "analyze_response", "scraper"}
        /\ get_word_count_from_response(resp[w]) = 1
        /\ resp[w].url = tbd_url[w]
        /\ hashes # EmptyDict

\* The number of bit positions in which two fingerprints differ.
Hamming(hash1, hash2) ==
    Cardinality({i \in 0..(BitLength - 1) :
                    Bit(int16(hash1), i) # Bit(int16(hash2), i)})

\* C26: for every pair of fingerprints of the declared width, _compare_hashes
\* returns the number of positions in which they agree over the width, which
\* is 1 - Hamming / width; nothing above the width is counted.
C26_MatchingBitsOverWidth ==
    pure.fn = "_compare_hashes" =>
        /\ pure.ret = <<MatchingBits(pure.hash1, pure.hash2), BitLength>>
        /\ pure.ret[1] = BitLength - Hamming(pure.hash1, pure.hash2)

\* Two fingerprints that differ in every position were compared: the
\* inversion of their xor has no 1 below the declared width.
C26_Witness ==
    /\ pure.fn = "_compare_hashes"
    /\ Hamming(pure.hash1, pure.hash2) = BitLength
    /\ pure.ret[1] = 0

\* The accumulator of a bit position: the frequencies of the tokens whose
\* hash has the bit, less the frequencies of the tokens whose hash has not.
Accumulator(d, i) ==
    SumOver({t \in DOMAIN d : Bit(sha256(t), i) = 1}, d)
        - SumOver({t \in DOMAIN d : Bit(sha256(t), i) = 0}, d)

\* C27: bit i of the fingerprint of a token-frequency map is 1 exactly when
\* the accumulator of position i is strictly positive; an accumulator of 0
\* gives bit 0, the empty map gives the all-zero fingerprint, the fingerprint
\* has the declared width and is the same whenever the map is.
C27_BitIffPositive ==
    pure.fn = "_hashify" =>
        /\ Len(pure.ret) = HexDigits
        /\ int16(pure.ret) < 2 ^ BitLength
        /\ \A i \in 0..(BitLength - 1) :
            Bit(int16(pure.ret), i) = 1 <=> Accumulator(pure.token_freq_dict, i) > 0
        /\ pure.token_freq_dict = EmptyDict => int16(pure.ret) = 0
        /\ pure.ret = _hashify(pure.token_freq_dict)

\* The fingerprint of a map of three tokens with a position whose
\* accumulator is exactly 0 and a position whose accumulator is positive.
C27_Witness ==
    /\ pure.fn = "_hashify"
    /\ DOMAIN pure.token_freq_dict = Tokens
    /\ \E i, j \in 0..(BitLength - 1) :
        /\ Accumulator(pure.token_freq_dict, i) = 0
        /\ Accumulator(pure.token_freq_dict, j) > 0
        /\ Bit(int16(pure.ret), i) = 0
        /\ Bit(int16(pure.ret), j) = 1

\* C28: a call of found_new_max returns True exactly when its word count is
\* strictly greater than the stored max_words, and then the record is the
\* call's; a call returning False (a tie, a lower count, a count of 0)
\* leaves url and max_words as they were; max_words never decreases and url
\* changes only when max_words increases.
C28_StrictlyGreaterOnly ==
    [][/\ max_save'.max_words >= max_save.max_words
       /\ max_save'.url # max_save.url => max_save'.max_words > max_save.max_words
       /\ \A w \in Workers :
            (/\ pc[w] \in {"found_new_max", "found_new_max_locked", "found_new_max_write"}
             /\ pc'[w] = "idle")
            => LET word_count == get_word_count_from_response(resp[w])
               IN  /\ max_ret'[w] \in {"True", "False"}
                   /\ max_ret'[w] = "True" <=> word_count > max_save.max_words
                   /\ max_ret'[w] = "True" =>
                        max_save' = [url |-> tbd_url[w], max_words |-> word_count]
                   /\ max_ret'[w] = "False" => max_save' = max_save]_vars

\* A call with the word count of the stored record, for another URL, has
\* returned False, and another call has returned True.
C28_Witness ==
    \E w1, w2 \in Workers :
        /\ pc[w1] = "idle" /\ max_ret[w1] = "False"
        /\ get_word_count_from_response(resp[w1]) = max_save.max_words
        /\ max_save.max_words > 0
        /\ max_save.url # tbd_url[w1]
        /\ max_ret[w2] = "True"

\* C29: every entry of the Skip Set, in memory and in the save file, stays
\* as it was created, under its key, in every step of every interleaving of
\* add_url calls: a later add_url for a URL of the same normalized form
\* neither replaces the stored string nor removes the entry.
C29_SkipEntryCreatedOnce ==
    /\ [](\A k \in DOMAIN skip_set : Skip_getHashUrl(skip_set[k]) = k)
    /\ [][/\ \A k \in DOMAIN skip_set :
                k \in DOMAIN skip_set' /\ skip_set'[k] = skip_set[k]
          /\ \A k \in DOMAIN skip_save :
                k \in DOMAIN skip_save' /\ skip_save'[k] = skip_save[k]
          /\ \A w \in Workers :
                (/\ pc[w] = "Skip_add_url"
                 /\ pc'[w] # pc[w]
                 /\ Skip_getHashUrl(tbd_url[w]) \in DOMAIN skip_set)
                => UNCHANGED <<skip_dict, skip_save>>]_vars

\* Both threads have called add_url for the same normalized form with
\* different strings and returned; the entry holds the string with the
\* fragment, so the call with the other string came second.
C29_Witness ==
    \E w1, w2 \in Workers :
        /\ pc[w1] = "idle" /\ pc[w2] = "idle"
        /\ tbd_url[w1] = Url("a", "/p", "top")
        /\ tbd_url[w2] = Url("a", "/p", "")
        /\ skip_set[Skip_getHashUrl(tbd_url[w2])] = Url("a", "/p", "top")

\* C30: a call of analyze_response in which the tokenizing fails returns
\* normally: the caller has no exception and has not stopped, the token
\* counts in memory and in the save file are as before the call, and the
\* Token lock is free again.
C30_TokenizeFailureIsCaught ==
    [][\A w \in Workers :
            (pc[w] = "analyze_response_locked" /\ pc'[w] # pc[w] /\ token_caught'[w])
            => /\ pc'[w] = after_analyze_response(w)
               /\ exc'[w] = "none"
               /\ UNCHANGED <<token_dict, token_save, token_seen>>
               /\ token_lock' = FreeLock]_vars

\* The tokenizing of a page with words has failed in a call that returned,
\* with counts of earlier pages in the store, while another thread waits
\* for the Token lock.
C30_Witness ==
    \E w1, w2 \in Workers :
        /\ pc[w1] = "idle" /\ token_caught[w1]
        /\ resp[w1].tokens # <<>>
        /\ counter # EmptyDict
        /\ pc[w2] = "analyze_response"

\* C31: a page taken up again by a resumed run is not skipped as a
\* near-duplicate on the sole ground of the fingerprint stored under its own
\* URL: a worker that skips for similarity has a similar fingerprint of
\* another URL in the store, and its URL is not a key of the store.
C31_NotDuplicateOfItself ==
    \A w \in Workers :
        (pc[w] = "Skip_add_url" /\ skip_reason[w] = "similar")
        => /\ \E u \in DOMAIN hashes :
                /\ u # resp[w].url
                /\ MeetsThreshold(_compare_hashes(page_hash[w], hashes[u]))
           /\ tbd_url[w] \notin DOMAIN hashes

\* The component locks, each with the steps of Worker.run taken while it is
\* held and the step that waits for it.
ComponentLocks ==
    {[lock |-> robots_lock, waits |-> "_addSite",
      inside |-> {"_addSite_check", "_checkRobot", "_addSite_exit"}],
     [lock |-> skip_lock, waits |-> "Skip_add_url", inside |-> {"Skip_add_url_write"}],
     [lock |-> simhash_lock, waits |-> "simhash_lock",
      inside |-> {"simhash_compare", "simhash_store"}],
     [lock |-> max_lock, waits |-> "found_new_max",
      inside |-> {"found_new_max_locked", "found_new_max_write"}],
     [lock |-> token_lock, waits |-> "analyze_response",
      inside |-> {"analyze_response_locked"}]}

\* C32: the component locks never deadlock the workers. A lock is held
\* exactly by the thread inside its component, once, or twice in the nested
\* _checkRobot; a thread outside every component, stopped by an exception
\* included, holds no lock; and every thread that has not stopped can take a
\* step, or waits for a lock whose holder can take one.
C32_NoLockDeadlock ==
    /\ \A c \in ComponentLocks :
        /\ c.lock.owner = NoOwner <=> c.lock.count = 0
        /\ \A w \in Workers : c.lock.owner = w <=> pc[w] \in c.inside
        /\ c.lock.count = IF c.lock.owner = NoOwner THEN 0
                          ELSE IF pc[c.lock.owner] = "_checkRobot" THEN 2 ELSE 1
    /\ \A w \in Workers :
        pc[w] # "terminated"
        => \/ ENABLED Worker_run(w)
           \/ \E c \in ComponentLocks :
                /\ pc[w] = c.waits
                /\ c.lock.owner \in Workers \ {w}
                /\ ENABLED Worker_run(c.lock.owner)

\* One thread is in the nested _checkRobot with the Robots lock taken twice
\* while the other waits for that lock.
C32_Witness ==
    \E w1, w2 \in Workers :
        /\ pc[w1] = "_checkRobot"
        /\ robots_lock = [owner |-> w1, count |-> 2]
        /\ pc[w2] = "_addSite"
        /\ ~ENABLED Worker_run(w2)

\* The greatest element of a set of word counts, 0 for the empty set.
GreatestOf(S) == IF S = {} THEN 0 ELSE CHOOSE n \in S : \A m \in S : m <= n

\* C33: under concurrent calls of scraper.update_analytics, longest_page
\* never goes from a greater word count to a smaller one, holds the greatest
\* word count among the pages analysed once no call is in progress, and every
\* page URL is counted into unique_urls and word_counts at most once.
C33_AnalyticsUnderConcurrency ==
    /\ longest_page.word_count >= analytics_log.stored
    /\ (\A w \in Workers : analytics_frame[w].pc = "idle")
        => longest_page.word_count = GreatestOf(analytics_log.analysed)
    /\ \A u \in AnalyticsUrls : analytics_log.counted[u] <= 1

====
